---- MODULE Spec2Model ----
(***************************************************************************)
(* A model of the impit request engines:                                   *)
(*   - the header assembly  impl From<HttpHeaders> for HeaderMap           *)
(*     (impit/src/http_headers/mod.rs),                                    *)
(*   - the dispatcher Impit::make_request and the WebSocket adapter        *)
(*     Impit::open_socket (impit/src/impit.rs),                            *)
(*   - the older engine Retcher::get with its vanilla fallback             *)
(*     (src/retcher.rs).                                                   *)
(* Three specifications share the variables: SpecHeaders (the header       *)
(* assembly alone), Spec (the Impit engine) and SpecRetcher.               *)
(***************************************************************************)
EXTENDS Integers, Sequences, FiniteSets, TLC

VARIABLES
    context,        \* HttpHeadersBuilder handed to the conversion (SpecHeaders)
    insertion,      \* the order in which the caller inserted the keys of the mapping
    headers,        \* the assembled HeaderMap, as its iteration sequence of <<name, value>>
    hpc,            \* position of the header assembly: "built" | "done" | "again"
    env_order,      \* process environment variable IMPIT_H2_PSEUDOHEADERS_ORDER
    config,         \* ImpitBuilder / RetcherConfig held by the engine
    h3_client,      \* Impit.h3_client: "None" | "Some"
    h3_engine,      \* Impit.h3_engine: << >> (None) | << [Hosts -> record state] >>
    pc,             \* position of the request in flight
    req,            \* the call in flight: entry point, url, options
    transport,      \* behaviour of the transport collaborator for this call
    h3,             \* local h3 of make_request / open_socket
    client,         \* the client the request was built on: "none" | "base" | "h3"
    version,        \* protocol version stamped on the request: "default" | "HTTP_3"
    sent,           \* the transport sends of this call, each a record
    probed,         \* whether this call ran an out-of-band capability probe
    looked_up,      \* whether this call consulted should_use_h3
    cache0,         \* h3_engine as it was when the call started
    response,       \* the Alt-Svc header of the response received, "none" before one
    outcome,        \* what the caller receives
    last,           \* per host, what the latest finished call to it observed
    stack,          \* Retcher::get frames: the configuration of each active frame
    earlier,        \* the header set an earlier request with the same inputs got
    h3_inits,       \* how many times H3Engine::init has run on this engine
    tasks,          \* the requests of the process that run side by side (SpecHandoff)
    serialized      \* whether the callers run "assemble headers, send" one at a time

vars == << context, insertion, headers, hpc, env_order, config, h3_client, h3_engine,
           pc, req, transport, h3, client, version, sent, probed, looked_up, cache0,
           response, outcome, last, stack, earlier, h3_inits,
           tasks, serialized >>

\* the locals of one call
callVars == << req, transport, h3, client, version, sent, probed, looked_up, cache0,
               response, outcome >>

----------------------------------------------------------------------------
(* Bounds of the model *)

\* largest number of headers in a caller's mapping
MaxHeaders == 2

\* largest number of nested Retcher::get frames explored
MaxDepth == 3

\* largest number of H3Engine::init runs explored on one engine
MaxInits == 2

\* number of requests of one process that may run side by side
MaxTasks == 2

----------------------------------------------------------------------------
(* Browser profiles: emulation::Browser and http_headers::statics *)

Browsers == {"Chrome", "Firefox"}

NoBrowser == "None"

\* statics::CHROME_HEADERS: ordered (name, default value) pairs
CHROME_HEADERS ==
    << <<"sec-ch-ua", "chrome-brand">>,
       <<"user-agent", "chrome-ua">>,
       <<"accept", "chrome-accept">> >>

\* statics::FIREFOX_HEADERS
FIREFOX_HEADERS ==
    << <<"user-agent", "firefox-ua">>,
       <<"accept", "firefox-accept">> >>

\* statics::CHROME_SOCKET_HEADERS
CHROME_SOCKET_HEADERS ==
    << <<"upgrade", "websocket">>,
       <<"user-agent", "chrome-ua">> >>

\* statics::CHROME_PSEUDOHEADERS_ORDER
CHROME_PSEUDOHEADERS_ORDER == <<":method", ":authority", ":scheme", ":path">>

\* statics::FIREFOX_PSEUDOHEADERS_ORDER
FIREFOX_PSEUDOHEADERS_ORDER == <<":method", ":path", ":authority", ":scheme">>

\* the header names a caller may supply; two of them differ from a profile
\* default only in letter case
CallerNames == {"user-agent", "User-Agent", "accept", "x-custom", "X-Trace"}

CallerValues == {"c1", "c2"}

----------------------------------------------------------------------------
(* Sequences and maps *)

Range(s) == {s[i] : i \in 1..Len(s)}

\* the sequences over S of length at most n
RECURSIVE SeqsUpTo(_, _)
SeqsUpTo(S, n) ==
    IF n = 0 THEN {<< >>}
    ELSE LET shorter == SeqsUpTo(S, n - 1)
         IN shorter \cup {Append(s, x) : s \in shorter, x \in S}

Injective(s) == \A i, j \in 1..Len(s) : s[i] = s[j] => i = j

\* the orders in which a HashMap with key set K may be iterated
IterationOrders(K) == {s \in SeqsUpTo(K, Cardinality(K)) :
                        Injective(s) /\ Range(s) = K}

----------------------------------------------------------------------------
(* Header assembly: impit/src/http_headers/mod.rs *)

\* HeaderName::from_str normalises a header name to lower case
HeaderNameFromStr(name) ==
    CASE name = "User-Agent" -> "user-agent"
      [] name = "X-Trace"    -> "x-trace"
      [] OTHER               -> name

\* HeaderMap::append, on the iteration sequence of the map: a name that is new
\* gets a new entry at the end; a name already present gets one more value,
\* which iteration yields right after that name's earlier values
HeaderMapAppend(map, name, value) ==
    LET n    == HeaderNameFromStr(name)
        idx  == {i \in 1..Len(map) : map[i][1] = n}
    IN IF idx = {} THEN Append(map, <<n, value>>)
       ELSE LET at == CHOOSE i \in idx : \A j \in idx : j <= i
            IN SubSeq(map, 1, at) \o << <<n, value>> >> \o SubSeq(map, at + 1, Len(map))

\* match val.context.browser { ... } selecting the header table
HeaderValues(browser) ==
    CASE browser = "Chrome"  -> CHROME_HEADERS
      [] browser = "Firefox" -> FIREFOX_HEADERS
      [] OTHER               -> << >>

\* match val.context.browser { ... } selecting the pseudo-header order
PseudoHeadersOrder(browser) ==
    CASE browser = "Chrome"  -> CHROME_PSEUDOHEADERS_ORDER
      [] browser = "Firefox" -> FIREFOX_PSEUDOHEADERS_ORDER
      [] OTHER               -> << >>

\* the variable written only while it is unset
SetPseudoHeadersEnvOnce(env, browser) ==
    IF env = << >> THEN PseudoHeadersOrder(browser) ELSE env

\* std::env::set_var("IMPIT_H2_PSEUDOHEADERS_ORDER", ...), run only for a
\* non-empty order
SetPseudoHeadersEnv(env, browser) ==
    IF PseudoHeadersOrder(browser) # << >> THEN PseudoHeadersOrder(browser) ELSE env

\* the used_custom_headers vector after the loop over the profile table
UsedCustomHeaders(table, custom) ==
    {table[i][1] : i \in {j \in 1..Len(table) : table[j][1] \in DOMAIN custom}}

\* the first loop: one append per row of the profile table, with the caller's
\* value when custom_headers.get(name) finds the exact name
RECURSIVE AppendDefaults(_, _, _, _)
AppendDefaults(map, table, custom, i) ==
    IF i > Len(table) THEN map
    ELSE LET name  == table[i][1]
             value == IF name \in DOMAIN custom THEN custom[name] ELSE table[i][2]
         IN AppendDefaults(HeaderMapAppend(map, name, value), table, custom, i + 1)

\* the second loop: custom_headers.iter() in the order `iter`, appending each
\* header whose name is not in used_custom_headers
RECURSIVE AppendCustom(_, _, _, _, _)
AppendCustom(map, iter, custom, used, i) ==
    IF i > Len(iter) THEN map
    ELSE LET name == iter[i]
             next == IF name \notin used
                        THEN HeaderMapAppend(map, name, custom[name])
                        ELSE map
         IN AppendCustom(next, iter, custom, used, i + 1)

\* impl From<HttpHeaders> for HeaderMap; `iter` is the order in which the
\* HashMap custom_headers happens to iterate
FromHttpHeaders(ctx, iter) ==
    LET table == HeaderValues(ctx.browser)
        used  == UsedCustomHeaders(table, ctx.custom_headers)
    IN AppendCustom(AppendDefaults(<< >>, table, ctx.custom_headers, 1),
                    iter, ctx.custom_headers, used, 1)

\* HttpHeadersBuilder, after with_browser / with_host / with_https /
\* with_custom_headers and build()
HttpHeadersBuilder(browser, host, https, custom) ==
    [browser |-> browser, host |-> host, https |-> https, custom_headers |-> custom]

\* the caller's mapping built by inserting the pairs of `ins` in order
MappingOf(ins) == [n \in {ins[i][1] : i \in 1..Len(ins)} |->
                      (CHOOSE p \in Range(ins) : p[1] = n)[2]]

\* the callers' insertion sequences: distinct names, at most MaxHeaders of them
Insertions ==
    {s \in SeqsUpTo(CallerNames \X CallerValues, MaxHeaders) :
        \A i, j \in 1..Len(s) : s[i][1] = s[j][1] => i = j}

NoContext == HttpHeadersBuilder(NoBrowser, "", FALSE, << >>)

----------------------------------------------------------------------------
(* URLs: url::Url::parse, as far as parse_url reads its result *)

Hosts == {"a.com", "b.com"}

NoHost == "None"

Urls == {"not a url", "https://a.com/", "http://b.com/", "ftp://a.com/", "mailto:x@a.com"}

\* Url::parse: is_err(), scheme() and host_str() of the result
UrlParse(url) ==
    CASE url = "https://a.com/" -> [is_err |-> FALSE, scheme |-> "https",  host_str |-> "a.com"]
      [] url = "http://b.com/"  -> [is_err |-> FALSE, scheme |-> "http",   host_str |-> "b.com"]
      [] url = "ftp://a.com/"   -> [is_err |-> FALSE, scheme |-> "ftp",    host_str |-> "a.com"]
      [] url = "mailto:x@a.com" -> [is_err |-> FALSE, scheme |-> "mailto", host_str |-> NoHost]
      [] OTHER                  -> [is_err |-> TRUE,  scheme |-> "",       host_str |-> NoHost]

\* Impit::parse_url
ParseUrl(url) ==
    LET u == UrlParse(url)
    IN IF u.is_err THEN [is_err |-> TRUE, err |-> "UrlParsingError", url |-> u]
       ELSE IF u.host_str = NoHost
            THEN [is_err |-> TRUE, err |-> "UrlMissingHostnameError", url |-> u]
       ELSE IF u.scheme \in {"http", "https"}
            THEN [is_err |-> FALSE, err |-> "", url |-> u]
       ELSE [is_err |-> TRUE, err |-> "UrlProtocolError", url |-> u]

\* Retcher::parse_url
RetcherParseUrl(url) ==
    LET u == UrlParse(url)
    IN IF u.is_err THEN [is_err |-> TRUE, err |-> "UrlParseError", url |-> u]
       ELSE IF u.host_str = NoHost
            THEN [is_err |-> TRUE, err |-> "UrlParseError", url |-> u]
       ELSE IF u.scheme \in {"http", "https"}
            THEN [is_err |-> FALSE, err |-> "", url |-> u]
       ELSE [is_err |-> TRUE, err |-> "ProtocolError", url |-> u]

----------------------------------------------------------------------------
(* Engine configuration: ImpitBuilder and Impit::new *)

Versions == {"HTTP_2", "HTTP_3"}

\* reqwest::Version orders HTTP_2 below HTTP_3
VersionLt(v, w) == v = "HTTP_2" /\ w = "HTTP_3"

\* the configurations ImpitBuilder can build (with_browser,
\* with_fallback_to_vanilla, with_http3)
ImpitConfigs ==
    [browser : Browsers \cup {NoBrowser}, vanilla_fallback : BOOLEAN,
     max_http_version : Versions]

\* an engine built without its HTTP/3 client
NewH3ClientNone(cfg) == "None"

\* Impit::new: h3_client is Some exactly when the ceiling is HTTP/3
NewH3Client(cfg) == IF cfg.max_http_version = "HTTP_3" THEN "Some" ELSE "None"

----------------------------------------------------------------------------
(* The capability cache: http3::H3Engine *)

\* Option<H3Engine>: None is the empty sequence, Some(e) is << e >>
NoEngine == << >>

SomeEngine(e) == << e >>

\* H3Engine::init: an engine that knows no host yet
H3EngineInit == [host \in Hosts |-> "unknown"]

\* H3Engine::set_h3_support
SetH3Support(engine, host, supported) ==
    [engine EXCEPT ![host] = IF supported THEN "supported" ELSE "unsupported"]

\* H3Engine::host_supports_h3: the record when there is one, else the
\* out-of-band probe, whose answer seeds the record
HostSupportsH3(engine, host, probe) ==
    IF engine[host] # "unknown"
    THEN [answer |-> engine[host] = "supported", engine |-> engine, probed |-> FALSE]
    ELSE [answer |-> probe, engine |-> SetH3Support(engine, host, probe), probed |-> TRUE]

\* should_use_h3 without its is_none() test: the engine is initialised on
\* every lookup
ShouldUseH3Reinit(cfg, engine, host, probe) ==
    IF VersionLt(cfg.max_http_version, "HTTP_3")
    THEN [answer |-> FALSE, engine |-> engine, probed |-> FALSE, inited |-> FALSE]
    ELSE LET r == HostSupportsH3(H3EngineInit, host, probe)
         IN [answer |-> r.answer, engine |-> SomeEngine(r.engine), probed |-> r.probed,
             inited |-> TRUE]

\* Impit::should_use_h3; `inited` tells whether H3Engine::init ran
ShouldUseH3(cfg, engine, host, probe) ==
    IF VersionLt(cfg.max_http_version, "HTTP_3")
    THEN [answer |-> FALSE, engine |-> engine, probed |-> FALSE, inited |-> FALSE]
    ELSE LET r == HostSupportsH3(IF engine = NoEngine THEN H3EngineInit ELSE engine[1],
                                 host, probe)
         IN [answer |-> r.answer, engine |-> SomeEngine(r.engine), probed |-> r.probed,
             inited |-> engine = NoEngine]

\* the record of a host as the specification's tri-state
RecordFor(engine, host) == IF engine = NoEngine THEN "unknown" ELSE engine[1][host]

----------------------------------------------------------------------------
(* Calls, and the transport collaborator *)

\* the method entry points of Impit, all of them calls of make_request
MethodEntries == {"get", "head", "options", "trace", "delete", "post", "put", "patch"}

\* the Method each entry point passes on
MethodOf(entry) ==
    CASE entry = "get"     -> "GET"
      [] entry = "head"    -> "HEAD"
      [] entry = "options" -> "OPTIONS"
      [] entry = "trace"   -> "TRACE"
      [] entry = "delete"  -> "DELETE"
      [] entry = "post"    -> "POST"
      [] entry = "put"     -> "PUT"
      [] entry = "patch"   -> "PATCH"
      [] OTHER             -> "GET"

\* the header mappings callers pass to the engines, as insertion sequences
CallHeaders == {<< >>, << <<"x-custom", "c1">> >>}

\* RequestOptions (None stands for the default: no headers, no flag)
RequestOptions == [headers : CallHeaders, http3_prior_knowledge : BOOLEAN]

\* what the transport does with the sends of one call ("unset" before the
\* first send): it succeeds, fails the
\* sends of an impersonating client, fails the sends of the HTTP/3 client, or
\* fails them all
TransportModes == {"ok", "fail_impersonated", "fail_h3", "fail_all"}

\* a send whose error goes unnoticed
SendFailsNever(mode, impersonated, on_h3) == FALSE

\* request.send().await is an error
SendFails(mode, impersonated, on_h3) ==
    \/ mode = "fail_all"
    \/ mode = "fail_impersonated" /\ impersonated
    \/ mode = "fail_h3" /\ on_h3

\* the Alt-Svc header of a response: absent, or its bytes
AltSvcValues == {"absent", "h3=:443", "h2=:443", "bytes-not-ascii"}

\* HeaderValue::to_str fails on bytes that are not visible ASCII
AltSvcToStrIsErr(alt_svc) == alt_svc = "bytes-not-ascii"

\* alt_svc.contains("h3")
AltSvcContainsH3(alt_svc) == alt_svc = "h3=:443"

NoRequest == [entry |-> "none", url |-> "",
              options |-> [headers |-> << >>, http3_prior_knowledge |-> FALSE]]

\* the locals of a call that has not started
IdleCall ==
    /\ req = NoRequest
    /\ transport = "unset"
    /\ h3 = FALSE
    /\ client = "none"
    /\ version = "default"
    /\ sent = << >>
    /\ probed = FALSE
    /\ looked_up = FALSE
    /\ cache0 = NoEngine
    /\ response = "none"
    /\ outcome = "none"
    /\ context = NoContext
    /\ headers = << >>

\* one transport send, as the transport collaborator sees it
SendRecord(method, cl, ver, hdrs, browser) ==
    [method |-> method, client |-> cl, version |-> ver, headers |-> hdrs,
     browser |-> browser]

----------------------------------------------------------------------------
(* The Impit engine: impit/src/impit.rs *)

\* the first check of make_request and open_socket, which returns Http3Disabled
UpgradeDisabledSwapped(cfg, options) ==
    options.http3_prior_knowledge /\ VersionLt("HTTP_3", cfg.max_http_version)

UpgradeDisabled(cfg, options) ==
    options.http3_prior_knowledge /\ VersionLt(cfg.max_http_version, "HTTP_3")

\* the two early exits with URL validation decided first
EarlyExitUrlFirst(cfg, options, parsed) ==
    IF parsed.is_err THEN "Panic"
    ELSE IF UpgradeDisabled(cfg, options) THEN "Http3Disabled"
    ELSE "none"

\* the early exits of make_request and open_socket, in the order of the code:
\* the Http3Disabled return, then parse_url(...).expect(...); "none" when the
\* call goes on
EarlyExit(cfg, options, parsed) ==
    IF UpgradeDisabled(cfg, options) THEN "Http3Disabled"
    ELSE IF parsed.is_err THEN "Panic"
    ELSE "none"

\* the transport selection without the caller's flag
UseH3LookupOnly(options, answer) == answer

\* let h3 = options.http3_prior_knowledge || self.should_use_h3(&host).await
UseH3(options, answer) == options.http3_prior_knowledge \/ answer

\* a request that is never stamped
StampVersionNever(use_h3) == "default"

\* if h3 { request = request.version(Version::HTTP_3) }
StampVersion(use_h3) == IF use_h3 THEN "HTTP_3" ELSE "default"

\* Impit::make_request and Impit::open_socket up to the point where the
\* request is built: the upgrade-policy check, parse_url(...).expect(...),
\* the transport selection, the header assembly and the client selection.
\* `browser` and `custom` are what the entry point gives the HttpHeadersBuilder.
PrepareCall(entry, url, options, probe, browser, custom, iter) ==
    LET parsed == ParseUrl(url)
        host   == parsed.url.host_str
        lookup == ShouldUseH3(config, h3_engine, host, probe)
        use_h3 == UseH3(options, lookup.answer)
        exit   == EarlyExit(config, options, parsed)
    IN /\ pc = "idle"
       /\ req' = [entry |-> entry, url |-> url, options |-> options]
       /\ transport' = "unset"
       /\ cache0' = h3_engine
       /\ sent' = << >>
       /\ response' = "none"
       /\ UNCHANGED << config, h3_client, last, stack, insertion, hpc, earlier, tasks,
                       serialized >>
       /\ IF exit # "none"
          THEN /\ outcome' = exit
               /\ pc' = "returned"
               /\ UNCHANGED << h3_engine, h3, client, version, probed, looked_up,
                               context, headers, env_order, h3_inits >>
          ELSE /\ h3' = use_h3
               /\ h3_inits' = IF ~options.http3_prior_knowledge /\ lookup.inited
                               THEN h3_inits + 1 ELSE h3_inits
               /\ h3_inits' <= MaxInits
               /\ looked_up' = ~options.http3_prior_knowledge
               /\ probed' = (~options.http3_prior_knowledge /\ lookup.probed)
               /\ h3_engine' = IF options.http3_prior_knowledge THEN h3_engine
                               ELSE lookup.engine
               /\ context' = HttpHeadersBuilder(browser, host,
                                                 parsed.url.scheme = "https", custom)
               /\ headers' = FromHttpHeaders(context', iter)
               /\ env_order' = SetPseudoHeadersEnv(env_order, context'.browser)
               /\ IF use_h3 /\ h3_client = "None"
                  THEN \* self.h3_client.as_ref().unwrap()
                       /\ outcome' = "Panic"
                       /\ pc' = "returned"
                       /\ UNCHANGED << client, version >>
                  ELSE /\ client' = IF use_h3 THEN "h3" ELSE "base"
                       /\ version' = StampVersion(use_h3)
                       /\ outcome' = "none"
                       /\ pc' = IF entry = "open_socket" THEN "connecting" ELSE "sending"

\* Impit::make_request, from the call of an entry point to request.send()
MakeRequest ==
    \E entry \in MethodEntries, url \in Urls, options \in RequestOptions,
       probe \in BOOLEAN :
        \E iter \in IterationOrders(DOMAIN MappingOf(options.headers)) :
            PrepareCall(entry, url, options, probe,
                        config.browser, MappingOf(options.headers), iter)

\* Impit::open_socket, from the call to connect_async_tls_with_config; the
\* header builder gets no browser and the Chrome WebSocket table as its
\* custom headers
OpenSocket ==
    \E url \in Urls, options \in RequestOptions, probe \in BOOLEAN :
        \E iter \in IterationOrders(DOMAIN MappingOf(CHROME_SOCKET_HEADERS)) :
            PrepareCall("open_socket", url, options, probe,
                        NoBrowser, MappingOf(CHROME_SOCKET_HEADERS), iter)

\* the cache update with its two writes in the other order
UpdateH3SupportSwapped(engine, host, alt_svc) ==
    IF engine = NoEngine THEN engine
    ELSE IF alt_svc # "absent" /\ ~AltSvcToStrIsErr(alt_svc) /\ AltSvcContainsH3(alt_svc)
         THEN SomeEngine(SetH3Support(SetH3Support(engine[1], host, TRUE), host, FALSE))
         ELSE SomeEngine(SetH3Support(engine[1], host, TRUE))

\* the cache update of make_request after a response that did not come over
\* HTTP/3: set_h3_support(host, false), then (host, true) when Alt-Svc names h3
UpdateH3Support(engine, host, alt_svc) ==
    IF engine = NoEngine THEN engine
    ELSE IF alt_svc # "absent" /\ ~AltSvcToStrIsErr(alt_svc) /\ AltSvcContainsH3(alt_svc)
         THEN SomeEngine(SetH3Support(SetH3Support(engine[1], host, FALSE), host, TRUE))
         ELSE SomeEngine(SetH3Support(engine[1], host, FALSE))

\* the cache update run whatever client carried the request
CacheAfterResponseAlways(engine, used_h3, host, alt_svc) ==
    UpdateH3Support(engine, host, alt_svc)

\* if !h3 { if let Some(h3_engine) = self.h3_engine.as_mut() { ... } }
CacheAfterResponse(engine, used_h3, host, alt_svc) ==
    IF used_h3 THEN engine ELSE UpdateH3Support(engine, host, alt_svc)

\* Impit::make_request from request.send().await to its return
TransportRespond ==
    \E mode \in TransportModes, alt_svc \in AltSvcValues :
        LET host == ParseUrl(req.url).url.host_str
        IN /\ pc = "sending"
           /\ transport' = mode
           /\ sent' = Append(sent, SendRecord(MethodOf(req.entry), client, version, headers,
                                            config.browser))
           /\ pc' = "returned"
           /\ UNCHANGED << config, h3_client, req, h3, client, version, probed,
                           looked_up, cache0, last, stack, context, insertion, headers,
                           hpc, env_order, earlier, h3_inits,
                           tasks, serialized >>
           /\ IF SendFails(mode, config.browser # NoBrowser, h3)
              THEN /\ alt_svc = "absent"
                   /\ outcome' = "RequestError"
                   /\ response' = "none"
                   /\ UNCHANGED h3_engine
              ELSE /\ response' = alt_svc
                   /\ h3_engine' = CacheAfterResponse(h3_engine, h3, host, alt_svc)
                   /\ outcome' = IF ~h3 /\ h3_engine # NoEngine /\ AltSvcToStrIsErr(alt_svc)
                                 THEN "Panic"   \* alt_svc.to_str().unwrap()
                                 ELSE "Ok"

\* Impit::open_socket: connect_async_tls_with_config(...).await?
HandshakeRespond ==
    \E mode \in TransportModes :
        /\ pc = "connecting"
        /\ transport' = mode
        /\ sent' = Append(sent, SendRecord("GET", "socket", version, headers, config.browser))
        /\ outcome' = IF SendFails(mode, config.browser # NoBrowser, FALSE)
                      THEN "WebsocketError" ELSE "Ok"
        /\ pc' = "returned"
        /\ UNCHANGED << config, h3_client, h3_engine, req, h3, client, version,
                        probed, looked_up, cache0, response, last, stack, context,
                        insertion, headers, hpc, env_order, earlier, h3_inits,
                        tasks, serialized >>

\* what a finished call to a host showed about it: a success on the
\* ceiling-limited client whose response advertised h3 or did not, or
\* anything else ("other", also the value before the first call)
Observed ==
    IF outcome = "Ok" /\ client = "base" /\ req.entry # "open_socket"
    THEN IF AltSvcContainsH3(response) THEN "advertised" ELSE "not_advertised"
    ELSE "other"

\* the caller takes the result; the locals of the call are dropped
Return ==
    /\ pc = "returned"
    /\ pc' = "idle"
    /\ last' = LET host == UrlParse(req.url).host_str
               IN IF host \in Hosts THEN [last EXCEPT ![host] = Observed] ELSE last
    /\ req' = NoRequest
    /\ transport' = "unset"
    /\ h3' = FALSE
    /\ client' = "none"
    /\ version' = "default"
    /\ sent' = << >>
    /\ probed' = FALSE
    /\ looked_up' = FALSE
    /\ cache0' = NoEngine
    /\ response' = "none"
    /\ outcome' = "none"
    /\ context' = NoContext
    /\ headers' = << >>
    /\ stack' = << >>
    /\ UNCHANGED << config, h3_client, h3_engine, insertion, hpc, env_order, earlier,
                    h3_inits,
                    tasks, serialized >>

Init ==
    /\ config \in ImpitConfigs
    /\ h3_client = NewH3Client(config)
    /\ h3_engine = NoEngine
    /\ pc = "idle"
    /\ IdleCall
    /\ last = [host \in Hosts |-> "other"]
    /\ stack = << >>
    /\ insertion = << >>
    /\ hpc = "unused"
    /\ env_order = << >>
    /\ earlier = << >>
    /\ h3_inits = 0
    /\ tasks = << >>
    /\ serialized = TRUE

Next ==
    \/ MakeRequest
    \/ OpenSocket
    \/ TransportRespond
    \/ HandshakeRespond
    \/ Return

Spec == Init /\ [][Next]_vars

----------------------------------------------------------------------------
(* The header assembly on its own *)

\* HttpHeaders::get_builder() ... .build() with any profile and any mapping
InitHeaders ==
    /\ insertion \in Insertions
    /\ \E browser \in Browsers \cup {NoBrowser} :
          context = HttpHeadersBuilder(browser, "a.com", TRUE, MappingOf(insertion))
    /\ headers = << >>
    /\ hpc = "built"
    /\ env_order = << >>
    /\ config = [browser |-> context.browser]
    /\ h3_client = "None"
    /\ h3_engine = NoEngine
    /\ pc = "assembly"
    /\ req = NoRequest
    /\ transport = "unset"
    /\ h3 = FALSE
    /\ client = "none"
    /\ version = "default"
    /\ sent = << >>
    /\ probed = FALSE
    /\ looked_up = FALSE
    /\ cache0 = NoEngine
    /\ response = "none"
    /\ outcome = "none"
    /\ last = [host \in Hosts |-> "other"]
    /\ stack = << >>
    /\ earlier = << >>
    /\ h3_inits = 0
    /\ tasks = << >>
    /\ serialized = TRUE

\* headers.into(): the conversion runs, under one of the orders in which the
\* HashMap custom_headers may iterate
Into ==
    /\ hpc = "built"
    /\ \E iter \in IterationOrders(DOMAIN context.custom_headers) :
          headers' = FromHttpHeaders(context, iter)
    /\ env_order' = SetPseudoHeadersEnv(env_order, context.browser)
    /\ hpc' = "done"
    /\ UNCHANGED << context, insertion, config, h3_client, h3_engine, pc, last, stack,
                    earlier, h3_inits,
                    tasks, serialized >>
    /\ UNCHANGED callVars

\* a second request with the same profile and an equal mapping: the caller
\* builds another HashMap with the same insertions, the entry point builds
\* another HttpHeaders from it and converts it; the first header set is kept
\* in `earlier`
IntoAgain ==
    /\ hpc = "done"
    /\ earlier' = headers
    /\ \E iter \in IterationOrders(DOMAIN context.custom_headers) :
          headers' = FromHttpHeaders(context, iter)
    /\ env_order' = SetPseudoHeadersEnv(env_order, context.browser)
    /\ hpc' = "again"
    /\ UNCHANGED << context, insertion, config, h3_client, h3_engine, pc, last, stack,
                    h3_inits,
                    tasks, serialized >>
    /\ UNCHANGED callVars

NextHeaders ==
    \/ Into
    \/ IntoAgain

SpecHeaders == InitHeaders /\ [][NextHeaders]_vars

----------------------------------------------------------------------------
(* The Retcher engine: src/retcher.rs *)

\* the configurations RetcherBuilder can build
RetcherConfigs == [browser : Browsers \cup {NoBrowser}, vanilla_fallback : BOOLEAN]

\* RetcherBuilder::default().build()
RetcherDefault == [browser |-> NoBrowser, vanilla_fallback |-> TRUE]

\* the fallback re-issuing the request on the engine that just failed
FallbackRetcherSelf(cfg) == cfg

\* the engine the fallback re-issues the request on: Retcher::default()
FallbackRetcher(cfg) == RetcherDefault

\* the guard with && in place of ||
NoFallbackBoth(cfg) == ~cfg.vanilla_fallback /\ cfg.browser = NoBrowser

\* if !self.config.vanilla_fallback || self.config.browser.is_none(): the
\* error is returned, there is no retry
NoFallback(cfg) == ~cfg.vanilla_fallback \/ cfg.browser = NoBrowser

\* the frame of Retcher::get that is running
Frame == stack[Len(stack)]

\* a caller calls Retcher::get(url, options)
RetcherGet ==
    \E url \in Urls, hdrs \in CallHeaders :
        /\ pc = "idle"
        /\ req' = [entry |-> "get", url |-> url,
                   options |-> [headers |-> hdrs, http3_prior_knowledge |-> FALSE]]
        /\ stack' = << config >>
        /\ pc' = "called"
        /\ UNCHANGED << config, h3_client, h3_engine, transport, h3, client, version, sent,
                        probed, looked_up, cache0, response, outcome, last, context,
                        insertion, headers, hpc, env_order, earlier, h3_inits,
                        tasks, serialized >>

\* Retcher::get from its entry to request.send(): parse_url, the early return
\* of its error, the header assembly
RetcherPrepare ==
    LET parsed == RetcherParseUrl(req.url)
    IN /\ pc = "called"
       /\ UNCHANGED << config, h3_client, h3_engine, req, transport, h3, client, version,
                       sent, probed, looked_up, cache0, response, last, stack, insertion,
                       hpc, earlier, h3_inits,
                       tasks, serialized >>
       /\ IF parsed.is_err
          THEN /\ outcome' = parsed.err
               /\ pc' = "returned"
               /\ UNCHANGED << context, headers, env_order >>
          ELSE /\ context' = HttpHeadersBuilder(Frame.browser, parsed.url.host_str,
                                                 parsed.url.scheme = "https",
                                                 MappingOf(req.options.headers))
               /\ \E iter \in IterationOrders(DOMAIN MappingOf(req.options.headers)) :
                     headers' = FromHttpHeaders(context', iter)
               /\ env_order' = SetPseudoHeadersEnv(env_order, Frame.browser)
               /\ outcome' = "none"
               /\ pc' = "sending"

\* Retcher::get from request.send().await on: the response, the error, or the
\* retry on another engine
RetcherRespond ==
    \E mode \in TransportModes :
        /\ pc = "sending"
        /\ transport = "unset" \/ transport = mode
        /\ transport' = mode
        /\ sent' = Append(sent, SendRecord("GET", "retcher", "default", headers,
                                      Frame.browser))
        /\ UNCHANGED << config, h3_client, h3_engine, req, h3, client, version, probed,
                        looked_up, cache0, response, last, context, insertion, headers,
                        hpc, env_order, earlier, h3_inits,
                        tasks, serialized >>
        /\ IF SendFails(mode, Frame.browser # NoBrowser, FALSE)
           THEN IF NoFallback(Frame)
                THEN /\ outcome' = "RequestError"
                     /\ pc' = "returned"
                     /\ UNCHANGED stack
                ELSE /\ Len(stack) < MaxDepth
                     /\ stack' = Append(stack, FallbackRetcher(Frame))
                     /\ pc' = "called"
                     /\ UNCHANGED outcome
           ELSE /\ outcome' = "Ok"
                /\ pc' = "returned"
                /\ UNCHANGED stack

InitRetcher ==
    /\ config \in RetcherConfigs
    /\ h3_client = "None"
    /\ h3_engine = NoEngine
    /\ pc = "idle"
    /\ IdleCall
    /\ last = [host \in Hosts |-> "other"]
    /\ stack = << >>
    /\ insertion = << >>
    /\ hpc = "unused"
    /\ env_order = << >>
    /\ earlier = << >>
    /\ h3_inits = 0
    /\ tasks = << >>
    /\ serialized = TRUE

NextRetcher ==
    \/ RetcherGet
    \/ RetcherPrepare
    \/ RetcherRespond
    \/ Return

SpecRetcher == InitRetcher /\ [][NextRetcher]_vars

----------------------------------------------------------------------------
(* The pseudo-header hand-off through the process environment *)

\* the requests that may be in flight in the process at once; they come from
\* engines of any profile, since the environment is shared by all of them
Tasks == 1..MaxTasks

\* a request that has not started
IdleTask == [browser |-> NoBrowser, pc |-> "idle", under |-> << >>]

\* a request runs up to headers.into(): the conversion writes the ordering of
\* the request's profile to the environment. Serialized callers start no
\* request while another one is between its assembly and its send.
Assemble(t) ==
    \E browser \in Browsers \cup {NoBrowser} :
        /\ tasks[t].pc = "idle"
        /\ serialized => \A u \in Tasks : tasks[u].pc # "assembled"
        /\ env_order' = SetPseudoHeadersEnv(env_order, browser)
        /\ tasks' = [tasks EXCEPT ![t] = [browser |-> browser, pc |-> "assembled",
                                          under |-> << >>]]
        /\ UNCHANGED << context, insertion, headers, hpc, config, h3_client, h3_engine,
                        pc, last, stack, earlier, h3_inits, serialized >>
        /\ UNCHANGED callVars

\* request.send().await: the transport builds the frames of the request under
\* the ordering the environment holds at that moment
Send(t) ==
    /\ tasks[t].pc = "assembled"
    /\ tasks' = [tasks EXCEPT ![t].pc = "sent", ![t].under = env_order]
    /\ UNCHANGED << context, insertion, headers, hpc, env_order, config, h3_client,
                    h3_engine, pc, last, stack, earlier, h3_inits, serialized >>
    /\ UNCHANGED callVars

\* the request returns to its caller
Done(t) ==
    /\ tasks[t].pc = "sent"
    /\ tasks' = [tasks EXCEPT ![t] = IdleTask]
    /\ UNCHANGED << context, insertion, headers, hpc, env_order, config, h3_client,
                    h3_engine, pc, last, stack, earlier, h3_inits, serialized >>
    /\ UNCHANGED callVars

InitHandoff ==
    /\ tasks = [t \in Tasks |-> IdleTask]
    /\ serialized \in BOOLEAN
    /\ env_order = << >>
    /\ config = [browser |-> NoBrowser]
    /\ h3_client = "None"
    /\ h3_engine = NoEngine
    /\ pc = "handoff"
    /\ IdleCall
    /\ last = [host \in Hosts |-> "other"]
    /\ stack = << >>
    /\ insertion = << >>
    /\ hpc = "unused"
    /\ earlier = << >>
    /\ h3_inits = 0

NextHandoff ==
    \E t \in Tasks :
        \/ Assemble(t)
        \/ Send(t)
        \/ Done(t)

SpecHandoff == InitHandoff /\ [][NextHandoff]_vars

----------------------------------------------------------------------------
(* Vocabulary of the properties *)

\* the profile table of the assembly under way
Table == HeaderValues(context.browser)

\* the positions of `headers` that carry the name `name`
PositionsOf(name) == {k \in 1..Len(headers) : headers[k][1] = name}

\* the default names of the profile, as a set
DefaultNames == {Table[i][1] : i \in 1..Len(Table)}

\* the positions of the caller's insertion sequence whose name is no profile
\* default, not even up to letter case
ExtraInsertions ==
    {i \in 1..Len(insertion) : HeaderNameFromStr(insertion[i][1]) \notin DefaultNames}

\* the host of the call in flight
CallHost == UrlParse(req.url).host_str

\* the call in flight got as far as a transport send
Dispatched == pc \in {"sending", "connecting"} \/ Len(sent) > 0

\* the headers of `hdrs` that carry a profile default name of `browser`
ProfileHeadersIn(hdrs, browser) ==
    {k \in 1..Len(hdrs) :
        \E i \in 1..Len(HeaderValues(browser)) :
            /\ hdrs[k][1] = HeaderValues(browser)[i][1]
            /\ hdrs[k][2] = HeaderValues(browser)[i][2]}

----------------------------------------------------------------------------
(* Properties of the header assembly, under SpecHeaders *)

\* C1: for every profile and every caller mapping, each default header name of
\* the profile appears exactly once in the assembled set, the defaults stand in
\* profile order, and each carries the caller's value when the mapping has that
\* name and the profile's default value otherwise.
ClaimC1 ==
    (hpc = "done" /\ context.browser \in Browsers) =>
        /\ \A i \in 1..Len(Table) :
              /\ Cardinality(PositionsOf(Table[i][1])) = 1
              /\ \A k \in PositionsOf(Table[i][1]) :
                    headers[k][2] = IF Table[i][1] \in DOMAIN context.custom_headers
                                    THEN context.custom_headers[Table[i][1]]
                                    ELSE Table[i][2]
        /\ \A i, j \in 1..Len(Table) :
              i < j => \A k \in PositionsOf(Table[i][1]), l \in PositionsOf(Table[j][1]) :
                          k < l

\* C2: for every profile and every caller mapping, each header of the mapping
\* whose name is not a profile default appears in the assembled set after all
\* profile defaults, and these headers stand in the order the caller inserted
\* them.  (Names are compared up to letter case, and names that differ from
\* a default only in case are left out.)
ClaimC2 ==
    (hpc = "done" /\ context.browser \in Browsers) =>
        /\ \A i \in ExtraInsertions :
              /\ PositionsOf(HeaderNameFromStr(insertion[i][1])) # {}
              /\ \A k \in PositionsOf(HeaderNameFromStr(insertion[i][1])) :
                    \A d \in DefaultNames : \A l \in PositionsOf(d) : l < k
        /\ \A i, j \in ExtraInsertions :
              i < j => \A k \in PositionsOf(HeaderNameFromStr(insertion[i][1])),
                          l \in PositionsOf(HeaderNameFromStr(insertion[j][1])) :
                          k < l

\* C3: with no profile the assembled set is the caller's mapping: the same
\* names (up to letter case) with the same values, in the order of insertion,
\* and nothing else.
ClaimC3 ==
    (hpc = "done" /\ context.browser = NoBrowser) =>
        /\ Len(headers) = Len(insertion)
        /\ \A i \in 1..Len(insertion) :
              /\ headers[i][1] = HeaderNameFromStr(insertion[i][1])
              /\ headers[i][2] = insertion[i][2]

----------------------------------------------------------------------------
(* Properties of the Impit engine, under Spec *)

\* C4: a request through any method entry point to a URL whose scheme is
\* neither http nor https returns the error UrlProtocolError (UnsupportedScheme)
\* to the caller, and no transport send is made.  (Stated for the calls the
\* upgrade-policy check lets through.)
ClaimC4 ==
    (/\ pc = "returned"
     /\ req.entry \in MethodEntries
     /\ ~UpgradeDisabled(config, req.options)
     /\ ~UrlParse(req.url).is_err
     /\ UrlParse(req.url).host_str # NoHost
     /\ UrlParse(req.url).scheme \notin {"http", "https"})
    => (outcome = "UrlProtocolError" /\ sent = << >>)

\* C5: a request with an unparsable URL returns UrlParsingError (InvalidUrl), a
\* request with a parsable URL without host returns UrlMissingHostnameError
\* (MissingHost); both are results returned to the caller, before any send.
\* (Stated for the calls the upgrade-policy check lets through.)
ClaimC5 ==
    (/\ pc = "returned"
     /\ req.entry \in MethodEntries
     /\ ~UpgradeDisabled(config, req.options))
    => /\ UrlParse(req.url).is_err
            => (outcome = "UrlParsingError" /\ sent = << >>)
       /\ (~UrlParse(req.url).is_err /\ UrlParse(req.url).host_str = NoHost)
            => (outcome = "UrlMissingHostnameError" /\ sent = << >>)

\* C6: a call of make_request or open_socket with http3_prior_knowledge on an
\* engine whose ceiling is below HTTP/3 returns Http3Disabled, makes no
\* transport send, neither initialises nor consults the capability cache, and
\* leaves the cache as it was.
TheoremC6 ==
    (/\ pc # "idle"
     /\ req.options.http3_prior_knowledge
     /\ config.max_http_version # "HTTP_3")
    => /\ pc = "returned"
       /\ outcome = "Http3Disabled"
       /\ sent = << >>
       /\ ~looked_up
       /\ ~probed
       /\ h3_engine = cache0
       /\ h3_engine = NoEngine

WitnessC6 ==
    /\ pc = "returned"
    /\ req.entry = "open_socket"
    /\ req.options.http3_prior_knowledge
    /\ config.max_http_version = "HTTP_2"
    /\ outcome = "Http3Disabled"

\* what C7 says of one host: once the latest finished call to it was a success
\* on the ceiling-limited client with an Alt-Svc naming h3, its record is
\* "supported", and the next call to it that is sent goes over the HTTP/3
\* client, stamped HTTP/3, without a capability probe
AdvertisedThenUpgraded(host) ==
    last[host] = "advertised" =>
        /\ (pc = "idle" \/ CallHost # host) => RecordFor(h3_engine, host) = "supported"
        /\ (CallHost = host /\ Dispatched) =>
              /\ h3
              /\ client = "h3"
              /\ version = "HTTP_3"
              /\ ~probed

\* C7 as claimed: on every engine, for every host, AdvertisedThenUpgraded.
ClaimC7 == \A host \in Hosts : AdvertisedThenUpgraded(host)

\* C7, amended: on an engine whose protocol ceiling is HTTP/3, after a request
\* to a host succeeds on the ceiling-limited client with an Alt-Svc header
\* naming h3, the host's record is "supported" and the next request to the
\* host is sent on the HTTP/3 client without a new capability probe.
TheoremC7 ==
    config.max_http_version = "HTTP_3" => \A host \in Hosts : AdvertisedThenUpgraded(host)

WitnessC7 ==
    /\ config.max_http_version = "HTTP_3"
    /\ pc = "sending"
    /\ ~req.options.http3_prior_knowledge
    /\ last[CallHost] = "advertised"
    /\ client = "h3"
    /\ ~probed

\* what C8 says of one host: once the latest finished call to it was a success
\* on the ceiling-limited client without an Alt-Svc naming h3, the next call
\* to it without the force flag is not sent over HTTP/3
NotAdvertisedThenNotUpgraded(host) ==
    (last[host] = "not_advertised" /\ CallHost = host /\ Dispatched
        /\ ~req.options.http3_prior_knowledge) =>
        /\ ~h3
        /\ client = "base"
        /\ version = "default"

\* ... and the record of the host is "unsupported"
NotAdvertisedThenUnsupported(host) ==
    (last[host] = "not_advertised" /\ (pc = "idle" \/ CallHost # host)) =>
        RecordFor(h3_engine, host) = "unsupported"

\* C8 as claimed: on every engine, for every host, both.
ClaimC8 ==
    \A host \in Hosts :
        NotAdvertisedThenUnsupported(host) /\ NotAdvertisedThenNotUpgraded(host)

\* C8, amended: after a request to a host succeeds on the ceiling-limited
\* client with a response whose Alt-Svc header is absent or does not name h3,
\* the next request to the host without the force flag is not sent on the
\* HTTP/3 client; and on an engine whose protocol ceiling is HTTP/3 the host's
\* record is "unsupported" (an engine with a lower ceiling keeps no record).
TheoremC8 ==
    \A host \in Hosts :
        /\ NotAdvertisedThenNotUpgraded(host)
        /\ config.max_http_version = "HTTP_3" => NotAdvertisedThenUnsupported(host)

WitnessC8 ==
    /\ config.max_http_version = "HTTP_3"
    /\ pc = "sending"
    /\ ~req.options.http3_prior_knowledge
    /\ last[CallHost] = "not_advertised"
    /\ RecordFor(cache0, CallHost) = "unsupported"
    /\ client = "base"

\* C9: on an engine with a profile and vanilla_fallback = true, when the
\* transport fails the impersonated send and would serve an unimpersonated
\* one, the call returns success, obtained by a retry that is unimpersonated
\* and carries none of the profile's default headers.
ClaimC9 ==
    (/\ pc = "returned"
     /\ config.browser \in Browsers
     /\ config.vanilla_fallback
     /\ transport = "fail_impersonated"
     /\ Len(sent) > 0)
    => /\ outcome = "Ok"
       /\ sent[Len(sent)].browser = NoBrowser
       /\ ProfileHeadersIn(sent[Len(sent)].headers, config.browser) = {}

----------------------------------------------------------------------------
(* Properties of the Retcher engine, under SpecRetcher *)

\* C10: every request ends with a definite outcome after at most two
\* transport sends, one impersonated and at most one retry; the retry runs on
\* an engine without profile and never causes a further retry, whatever the
\* transport does; and a call under way can always take its next step.
TheoremC10 ==
    /\ Len(sent) <= 2
    /\ Len(stack) <= 2
    /\ Len(stack) = 2 => (Frame.browser = NoBrowser /\ stack[1].browser \in Browsers
                          /\ stack[1].vanilla_fallback)
    /\ pc = "returned" =>
          outcome \in {"Ok", "RequestError", "UrlParseError", "ProtocolError"}
    /\ pc # "idle" => ENABLED NextRetcher

WitnessC10 ==
    /\ pc = "returned"
    /\ Len(sent) = 2
    /\ sent[1].browser \in Browsers
    /\ sent[2].browser = NoBrowser
    /\ outcome = "RequestError"

----------------------------------------------------------------------------
(* Further properties of the Impit engine, under Spec *)

\* C11: when a request is routed to the HTTP/3 client because the host's
\* record is "supported" (the caller did not force it), and that attempt fails
\* while the ceiling-limited client would have been served, the caller gets no
\* error: the request is served through a fallback path.
ClaimC11 ==
    (/\ pc = "returned"
     /\ req.entry \in MethodEntries
     /\ ~req.options.http3_prior_knowledge
     /\ Len(sent) > 0
     /\ sent[1].client = "h3"
     /\ RecordFor(cache0, CallHost) = "supported"
     /\ transport = "fail_h3")
    => outcome = "Ok"

\* C13: the opening handshake of open_socket carries the fixed Chrome
\* WebSocket header table, whatever profile the engine is configured with,
\* combined with the caller's per-call overrides: every header of
\* options.headers is present in the handshake with the caller's value.
ClaimC13 ==
    (req.entry = "open_socket" /\ Len(sent) > 0) =>
        \A i \in 1..Len(req.options.headers) :
            \E k \in 1..Len(sent[1].headers) :
                /\ sent[1].headers[k][1] = HeaderNameFromStr(req.options.headers[i][1])
                /\ sent[1].headers[k][2] = req.options.headers[i][2]


\* the engine's protocol ceiling is HTTP/3
CeilingH3 == config.max_http_version = "HTTP_3"

\* the call in flight carries the force flag
Forced == req.options.http3_prior_knowledge

\* C15: on an engine with ceiling HTTP/3, a valid request with
\* http3_prior_knowledge = true is sent through the HTTP/3 client, stamped
\* HTTP/3, whatever the host's record, and the call neither consults nor
\* modifies the capability cache.
TheoremC15 ==
    (/\ req.entry \in MethodEntries
     /\ CeilingH3
     /\ Forced
     /\ ~ParseUrl(req.url).is_err)
    => /\ h3
       /\ client = "h3"
       /\ version = "HTTP_3"
       /\ ~looked_up
       /\ ~probed
       /\ h3_engine = cache0
       /\ \A i \in 1..Len(sent) : sent[i].client = "h3" /\ sent[i].version = "HTTP_3"

\* a forced request to a host recorded "unsupported" was answered over HTTP/3
WitnessC15 ==
    /\ pc = "returned"
    /\ req.entry \in MethodEntries
    /\ CeilingH3
    /\ Forced
    /\ outcome = "Ok"
    /\ Len(sent) = 1
    /\ sent[1].client = "h3"
    /\ RecordFor(cache0, CallHost) = "unsupported"
    /\ response = "h2=:443"

\* the transport failed the one send of the make_request call in flight
TransportFailed ==
    /\ req.entry \in MethodEntries
    /\ Len(sent) > 0
    /\ \/ transport = "fail_all"
       \/ transport = "fail_impersonated" /\ config.browser # NoBrowser
       \/ transport = "fail_h3" /\ sent[1].client = "h3"

UrlErrors == {"UrlParsingError", "UrlMissingHostnameError", "UrlProtocolError"}

\* a finished call of make_request or open_socket that carried both an invalid
\* URL and the force flag, on an engine whose ceiling is below HTTP/3
InvalidAndForced ==
    /\ pc = "returned"
    /\ req.entry \in MethodEntries \cup {"open_socket"}
    /\ Forced
    /\ ~CeilingH3
    /\ ParseUrl(req.url).is_err

\* C17: URL validation is decided before the upgrade policy: a request with an
\* invalid URL and the force flag on a ceiling-HTTP/2 engine fails with the URL
\* validation error, not with Http3Disabled.
ClaimC17 == InvalidAndForced => outcome \in UrlErrors

\* C17, amended: the upgrade policy is decided before URL validation: such a
\* request fails with Http3Disabled, before any transport send.
TheoremC17 == InvalidAndForced => (outcome = "Http3Disabled" /\ sent = << >>)

WitnessC17 ==
    /\ InvalidAndForced
    /\ req.url = "not a url"
    /\ outcome = "Http3Disabled"

\* the record of `host` differs from what it was when the call started
RecordChanged(host) == RecordFor(h3_engine, host) # RecordFor(cache0, host)

\* the call in flight received a response on the ceiling-limited client
RespondedOnBase == response # "none" /\ client = "base"

\* C18: make_request modifies the capability cache only after a successful
\* response received on the ceiling-limited transport, and then only the
\* record of the requested host; a request rejected in validation, failing in
\* transport or sent on the HTTP/3 transport leaves every record unchanged.
ClaimC18 ==
    req.entry \in MethodEntries =>
        \A host \in Hosts :
            RecordChanged(host) => (host = CallHost /\ RespondedOnBase)

\* C18, amended: make_request changes the record of the requested host only,
\* and only in the capability lookup of an unforced request, whose probe seeds
\* the record of a host that was unknown, or after a successful response
\* received on the ceiling-limited transport; a request rejected before the
\* lookup and a forced request leave every record unchanged.
TheoremC18 ==
    req.entry \in MethodEntries =>
        /\ \A host \in Hosts :
              RecordChanged(host) =>
                  /\ host = CallHost
                  /\ ~Forced
                  /\ probed \/ RespondedOnBase
        /\ probed => RecordFor(cache0, CallHost) = "unknown"
        /\ ~looked_up => h3_engine = cache0

\* a request that failed in transport left the record its probe had seeded,
\* and the record of the other host as it was
WitnessC18 ==
    /\ pc = "returned"
    /\ req.entry \in MethodEntries
    /\ outcome = "RequestError"
    /\ probed
    /\ RecordChanged(CallHost)
    /\ \E host \in Hosts : host # CallHost /\ RecordFor(cache0, host) = "supported"

\* the answer of the capability lookup of the call that is about to send: the
\* lookup leaves the record it answered from, or the one its probe seeded
LookupAnswer ==
    looked_up /\ CeilingH3 /\ RecordFor(h3_engine, CallHost) = "supported"

\* C19: for every request that reaches the send step, the HTTP/3 client is
\* used iff the request is stamped HTTP/3, which happens iff the caller forced
\* it or the capability lookup answered true; otherwise the ceiling-limited
\* client is used with no stamp; an engine with a ceiling below HTTP/3 never
\* sends on the HTTP/3 client.
TheoremC19 ==
    req.entry \in MethodEntries =>
        /\ pc = "sending" =>
              /\ client \in {"base", "h3"}
              /\ client = "h3" <=> version = "HTTP_3"
              /\ version = "HTTP_3" <=> (Forced \/ LookupAnswer)
              /\ client = "base" => version = "default"
        /\ \A i \in 1..Len(sent) :
              /\ sent[i].client = client
              /\ sent[i].version = version
              /\ sent[i].client = "h3" <=> sent[i].version = "HTTP_3"
              /\ sent[i].client = "h3" => CeilingH3

\* an unforced request whose probe answered true was sent on the HTTP/3
\* client, stamped HTTP/3
WitnessC19 ==
    /\ pc = "returned"
    /\ req.entry \in MethodEntries
    /\ ~Forced
    /\ probed
    /\ Len(sent) = 1
    /\ sent[1].client = "h3"
    /\ sent[1].version = "HTTP_3"

\* C20: on an engine instance H3Engine::init runs at most once over any
\* sequence of requests, it has completed when a per-host lookup runs, and it
\* never runs on an engine whose ceiling is below HTTP/3.
TheoremC20 ==
    /\ h3_inits <= 1
    /\ h3_inits = 1 <=> h3_engine # NoEngine
    /\ ~CeilingH3 => h3_inits = 0
    /\ (looked_up /\ CeilingH3) => (h3_inits = 1 /\ h3_engine # NoEngine)

\* a lookup on an engine whose cache an earlier request had initialised
WitnessC20 ==
    /\ pc = "sending"
    /\ looked_up
    /\ CeilingH3
    /\ cache0 # NoEngine
    /\ h3_inits = 1


\* C24: wherever make_request or open_socket chooses the HTTP/3 transport
\* (h3 = true) the engine's h3_client is present, so the selection never
\* aborts; h3_client is present exactly when the ceiling is HTTP/3, and
\* h3 = true happens only on such engines.
TheoremC24 ==
    /\ h3 => (h3_client = "Some" /\ CeilingH3 /\ client = "h3")
    /\ h3_client = "Some" <=> CeilingH3
    /\ outcome = "Panic" =>
          \/ ParseUrl(req.url).is_err
          \/ AltSvcToStrIsErr(response)

\* an unforced open_socket call that chose the HTTP/3 transport, with the
\* client at hand
WitnessC24 ==
    /\ h3
    /\ pc = "connecting"
    /\ req.entry = "open_socket"
    /\ ~Forced
    /\ h3_client = "Some"

\* a finished unforced make_request call to a host whose record was
\* "supported" when it started, while the transport fails HTTP/3 sends
UpgradedKeepsFailing ==
    /\ pc = "returned"
    /\ req.entry \in MethodEntries
    /\ ~Forced
    /\ Len(sent) > 0
    /\ RecordFor(cache0, CallHost) = "supported"
    /\ transport = "fail_h3"

\* C25: once a host's record is "supported" no request through the dispatcher
\* changes it: every later unforced request to the host is sent on the HTTP/3
\* client, whose outcome never updates the cache; so while the HTTP/3
\* transport fails for that host, every later unforced request to it fails.
TheoremC25 ==
    [][/\ \A host \in Hosts :
              RecordFor(h3_engine, host) = "supported"
                  => RecordFor(h3_engine', host) = "supported"
       /\ UpgradedKeepsFailing' =>
              (outcome' = "RequestError" /\ sent'[1].client = "h3")]_vars

\* a second unforced request in a row to a "supported" host has failed on the
\* HTTP/3 client, and the record still says "supported"
WitnessC25 ==
    /\ UpgradedKeepsFailing
    /\ outcome = "RequestError"
    /\ last[CallHost] = "other"
    /\ ~probed
    /\ RecordFor(h3_engine, CallHost) = "supported"


----------------------------------------------------------------------------
(* Further properties of the header assembly, under SpecHeaders *)

\* C12: two requests made with the same engine configuration and identical
\* RequestOptions (the same header mapping, built with the same insertions)
\* are given identical header sets, in content and in order.
ClaimC12 == hpc = "again" => headers = earlier

\* C14: caller-supplied custom headers are added to the profile defaults and
\* never overwrite them: under a profile, every default name is sent with its
\* default value, whatever the caller's mapping.
ClaimC14 ==
    (hpc = "done" /\ context.browser \in Browsers) =>
        \A i \in 1..Len(Table) :
            \E k \in 1..Len(headers) :
                /\ headers[k][1] = Table[i][1]
                /\ headers[k][2] = Table[i][2]

----------------------------------------------------------------------------
(* Properties of the pseudo-header hand-off, under SpecHandoff *)

\* the request t was sent under the pseudo-header ordering of its own profile
SentUnderOwnOrder(t) == tasks[t].under = PseudoHeadersOrder(tasks[t].browser)

\* C21: when requests run one at a time (assemble headers, then send, without
\* interleaving), the process-wide pseudo-header ordering in effect when a
\* request is sent is the ordering of that request's own profile; a request
\* with no profile is not sent under an ordering an earlier request left.
ClaimC21 ==
    serialized => \A t \in Tasks : tasks[t].pc = "sent" => SentUnderOwnOrder(t)

\* C22: two requests with different browser profiles that interleave between
\* header assembly and send can reach a state where one is sent under the
\* other profile's ordering; when "assemble headers, send" is one critical
\* section no request with a browser profile is sent under another ordering.
TheoremC22 ==
    \A t \in Tasks :
        (/\ tasks[t].pc = "sent"
         /\ tasks[t].browser \in Browsers
         /\ ~SentUnderOwnOrder(t))
        => ~serialized

\* the race: a request with a browser profile was sent under the ordering of
\* the other profile, written by a request that is still in flight
WitnessC22 ==
    /\ ~serialized
    /\ \E t, u \in Tasks :
          /\ t # u
          /\ tasks[t].browser \in Browsers
          /\ tasks[u].browser \in Browsers
          /\ tasks[t].browser # tasks[u].browser
          /\ tasks[t].pc = "sent"
          /\ tasks[u].pc # "idle"
          /\ tasks[t].under = PseudoHeadersOrder(tasks[u].browser)

----------------------------------------------------------------------------
(* Further properties of the Retcher engine, under SpecRetcher *)

\* the transport failed the send of the engine the caller called
FirstSendFailed ==
    /\ Len(sent) > 0
    /\ \/ transport = "fail_all"
       \/ transport = "fail_impersonated" /\ config.browser # NoBrowser

\* C23: a failed request is re-issued, unimpersonated, only when the engine
\* has vanilla fallback enabled and a profile configured; when vanilla_fallback
\* is false or the profile is none, a transport failure is returned to the
\* caller as an error after exactly one transport send.
TheoremC23 ==
    /\ Len(sent) <= Len(stack)
    /\ \A i \in 1..(Len(stack) - 1) :
          /\ stack[i].vanilla_fallback
          /\ stack[i].browser \in Browsers
          /\ stack[i + 1].browser = NoBrowser
    /\ (/\ pc = "returned"
        /\ FirstSendFailed
        /\ ~config.vanilla_fallback \/ config.browser = NoBrowser)
       => /\ outcome = "RequestError"
          /\ Len(sent) = 1
          /\ Len(stack) = 1

\* an impersonating engine with the fallback switched off returned the error
\* of its one send, though an unimpersonated send would have been served
WitnessC23 ==
    /\ pc = "returned"
    /\ config.browser \in Browsers
    /\ ~config.vanilla_fallback
    /\ transport = "fail_impersonated"
    /\ outcome = "RequestError"
    /\ Len(sent) = 1

====
